---- MODULE Spec2Model ----
(***************************************************************************)
(* Model of crates/lune-std-roblox/src/lib.rs: the `roblox` standard       *)
(* library of lune.  Three parts of the file are modelled:                 *)
(*   - the instance registry calls (implement_property,                    *)
(*     implement_byte_size_property, implement_byte_size_for_all_classes,  *)
(*     module) and the property reads and writes that consult them;        *)
(*   - the four serialize / deserialize entry points, which hand a closure *)
(*     to spawn_blocking and await it;                                     *)
(*   - the REFLECTION_DATABASE OnceLock.                                   *)
(* The document codec, the registry mapping and the scheduler live in      *)
(* other crates; they are modelled from their contracts.                   *)
(***************************************************************************)
EXTENDS Integers, Sequences, FiniteSets, TLC

VARIABLES
    getters,      \* registry: set of [class, prop, fn] getter entries
    setters,      \* registry: set of [class, prop, fn] setter entries
    modPc,        \* position of module(): "none", "loop", "done", "failed"
    modIdx,       \* index of the class the installer loop visits next
    modRuns,      \* number of module() calls started
    failedClasses,\* the installer's reports (eprintln): [class, fail] records
    regCalls,     \* number of implementProperty calls made
    last,         \* outcome of the last synchronous host call
    dom,          \* shared document storage: instance handle -> data
    host,         \* what the host thread executes: idle or a ByteSize read
    task,         \* per cooperative task: its entry-point call and state
    work,         \* per task: the spawned background closure and its state
    ctxUp,        \* TRUE while the background execution context is running
    once,         \* REFLECTION_DATABASE: the OnceLock's state
    initRuns,     \* number of ReflectionDatabase::new runs
    thr           \* per thread: position in get_reflection_database

vars == <<getters, setters, modPc, modIdx, modRuns, failedClasses, regCalls,
          last, dom, host, task, work, ctxUp, once, initRuns, thr>>

regVars == <<getters, setters, modPc, modIdx, modRuns, failedClasses,
             regCalls, last>>
bridgeVars == <<dom, host, task, work, ctxUp>>
onceVars == <<once, initRuns, thr>>

(***************************************************************************)
(* Bounds of the model.                                                    *)
(***************************************************************************)
NumClasses == 3        \* class names the reflection database returns
NumInstances == 4      \* instance handles of the pool in use
MaxLen == 1            \* longest instance array passed to serializeModel
MaxRegCalls == 2       \* implementProperty calls per behaviour
MaxModuleRuns == 1     \* module() calls per behaviour
NumTasks == 2          \* cooperative tasks calling the entry points
NumThreads == 2        \* threads calling getReflectionDatabase
MaxDbCalls == 2        \* getReflectionDatabase calls per thread
MaxData == 1           \* largest content of an instance in document storage

\* No value: an absent optional argument, an empty slot.
None == [kind |-> "none", name |-> ""]

(***************************************************************************)
(* Reflection database (lune_roblox::reflection::Database).                *)
(***************************************************************************)
ClassPool == <<"DataModel", "Part", "Folder", "Model", "Script">>

\* db.get_class_names(): the same order on every call.
get_class_names == SubSeq(ClassPool, 1, NumClasses)

ClassNames == {get_class_names[i] : i \in 1..Len(get_class_names)}

ClassIndex(c) == CHOOSE i \in 1..Len(ClassPool) : ClassPool[i] = c

(***************************************************************************)
(* Instances: handles into shared document storage.  The class of a handle *)
(* is fixed; a stale handle cannot be wrapped as a document, a broken one  *)
(* cannot be encoded.                                                      *)
(***************************************************************************)
InstancePool ==
    << [cls |-> "DataModel", stale |-> FALSE, broken |-> FALSE],
       [cls |-> "Part",      stale |-> FALSE, broken |-> FALSE],
       [cls |-> "Part",      stale |-> FALSE, broken |-> TRUE],
       [cls |-> "Folder",    stale |-> TRUE,  broken |-> FALSE],
       [cls |-> "DataModel", stale |-> FALSE, broken |-> TRUE],
       [cls |-> "Folder",    stale |-> FALSE, broken |-> FALSE] >>

Instances == 1..NumInstances

\* instance.get_class_name()
get_class_name(i) == InstancePool[i].cls

(***************************************************************************)
(* Document codec (lune_roblox::document).  Bytes are sequences of         *)
(* integers: a format magic, a kind tag, then the encoded roots.           *)
(***************************************************************************)
Ok(v) == [ok |-> TRUE, val |-> v, err |-> "none"]
Err(e) == [ok |-> FALSE, val |-> <<>>, err |-> e]

FormatMagic(f) == IF f = "Binary" THEN 1 ELSE 2
KindTag(k) == IF k = "Place" THEN 1 ELSE 2

\* Document::from_data_model_instance
from_data_model_instance(i) ==
    IF InstancePool[i].stale \/ get_class_name(i) # "DataModel"
    THEN Err("DocumentError")
    ELSE Ok([kind |-> "Place", roots |-> <<i>>])

\* Document::from_instance_array
from_instance_array(is) ==
    IF \E k \in 1..Len(is) : InstancePool[is[k]].stale
    THEN Err("DocumentError")
    ELSE Ok([kind |-> "Model", roots |-> is])

\* One root in the wire format: class, data and, in Xml, a closing token.
EncodeRoot(i, f, d) ==
    IF f = "Binary" THEN <<ClassIndex(get_class_name(i)), d[i]>>
    ELSE <<ClassIndex(get_class_name(i)), d[i], 0>>

RECURSIVE EncodeRoots(_, _, _)
EncodeRoots(is, f, d) ==
    IF is = <<>> THEN <<>>
    ELSE EncodeRoot(Head(is), f, d) \o EncodeRoots(Tail(is), f, d)

\* Document::to_bytes_with_format, on the storage d as it is when encoding runs.
to_bytes_with_format(doc, f, d) ==
    IF \E k \in 1..Len(doc.roots) : InstancePool[doc.roots[k]].broken
    THEN Err("DocumentError")
    ELSE Ok(<<FormatMagic(f), KindTag(doc.kind)>> \o EncodeRoots(doc.roots, f, d))

RECURSIVE DecodeRoots(_, _)
DecodeRoots(body, stride) ==
    IF body = <<>> THEN <<>>
    ELSE <<[cls |-> ClassPool[body[1]], data |-> body[2]]>>
         \o DecodeRoots(SubSeq(body, stride + 1, Len(body)), stride)

\* Document::from_bytes: the format is sniffed from the content; the bytes
\* must be well formed and of the requested kind.
from_bytes(bytes, kind) ==
    IF Len(bytes) < 2 \/ bytes[1] \notin {1, 2} THEN Err("DocumentError")
    ELSE LET stride == IF bytes[1] = 1 THEN 2 ELSE 3
             body == SubSeq(bytes, 3, Len(bytes))
         IN IF \/ bytes[2] # KindTag(kind)
               \/ Len(body) % stride # 0
               \/ \E k \in 1..Len(body) :
                     k % stride = 1 /\ body[k] \notin 1..Len(ClassPool)
            THEN Err("DocumentError")
            ELSE Ok([kind |-> kind, nodes |-> DecodeRoots(body, stride)])

\* Document::into_data_model_instance
into_data_model_instance(doc) ==
    IF doc.kind # "Place" \/ Len(doc.nodes) # 1 THEN Err("DocumentError")
    ELSE Ok(<<doc.nodes[1]>>)

\* Document::into_instance_array
into_instance_array(doc) ==
    IF doc.kind # "Model" THEN Err("DocumentError")
    ELSE Ok(doc.nodes)

(***************************************************************************)
(* Instance registry (lune_roblox::instance::registry::InstanceRegistry):  *)
(* a mapping from (class, property) to a getter and to a setter.           *)
(***************************************************************************)
Entry(c, p, fn) == [class |-> c, prop |-> p, fn |-> fn]

EntriesFor(reg, c, p) == {e \in reg : e.class = c /\ e.prop = p}

\* InstanceRegistry::insert_property_getter: upsert, the last write wins.
insert_property_getter(reg, c, p, fn) ==
    (reg \ EntriesFor(reg, c, p)) \cup {Entry(c, p, fn)}

\* InstanceRegistry::insert_property_setter: upsert, the last write wins.
insert_property_setter(reg, c, p, fn) ==
    (reg \ EntriesFor(reg, c, p)) \cup {Entry(c, p, fn)}

\* The registry's read path: the implementation registered for (c, p).
Lookup(reg, c, p) ==
    IF EntriesFor(reg, c, p) = {} THEN None
    ELSE (CHOOSE e \in EntriesFor(reg, c, p) : TRUE).fn

(***************************************************************************)
(* Callables.  A script function is opaque; the two closures the library   *)
(* creates are the read-only setter, which captures a property name, and   *)
(* the ByteSize getter.                                                    *)
(***************************************************************************)
ScriptFn(n) == [kind |-> "script", name |-> n]
ScriptGetters == {ScriptFn("g1"), ScriptFn("g2")}
ScriptSetters == {ScriptFn("s1")}

\* format!("Property '{property_name}' is read-only")
ReadOnlyMessage(name) == <<"Property '", name, "' is read-only">>

\* The closure of lines 144-148: it owns a clone of property_name.
ReadOnlySetterBad(class_name, property_name) ==
    [kind |-> "readonly", name |-> class_name]
ReadOnlySetter(class_name, property_name) ==
    [kind |-> "readonly", name |-> property_name]

\* The closure of lines 213-218: property_name is the literal "ByteSize".
ByteSizeSetterWritable == [kind |-> "script", name |-> "ByteSize"]
ByteSizeSetter == [kind |-> "readonly", name |-> "ByteSize"]

\* The closure of lines 192-211.
ByteSizeGetterFn == [kind |-> "bytesize", name |-> "ByteSize"]

\* Calling a setter with any arguments: the read-only closure ignores them
\* (LuaMultiValue) and returns a runtime error; a script setter is opaque.
CallSetter(fn, args) ==
    IF fn.kind = "readonly"
    THEN [ok |-> FALSE, msg |-> ReadOnlyMessage(fn.name)]
    ELSE [ok |-> TRUE, msg |-> <<>>]

(***************************************************************************)
(* implement_property.  `fail` names the fallible step the environment     *)
(* makes fail: "create" (lua.create_function), "getter" or "setter" (the   *)
(* registry insertions), or "none".                                        *)
(***************************************************************************)
RegResult(G, S, ok) == [getters |-> G, setters |-> S, ok |-> ok]

implement_property_keep(G, S, class_name, property_name, property_getter, property_setter, fail) ==
    IF property_setter = None /\ fail = "create" THEN RegResult(G, S, FALSE)
    ELSE IF fail = "getter" THEN RegResult(G, S, FALSE)
    ELSE LET G1 == insert_property_getter(G, class_name, property_name,
                                          property_getter)
         IN IF fail = "setter" THEN RegResult(G1, S, FALSE)
            ELSE IF property_setter = None /\ EntriesFor(S, class_name, property_name) # {}
            THEN RegResult(G1, S, TRUE)
            ELSE RegResult(G1,
                     insert_property_setter(S, class_name, property_name,
                         IF property_setter # None THEN property_setter
                         ELSE ReadOnlySetter(class_name, property_name)),
                     TRUE)

implement_property(G, S, class_name, property_name, property_getter, property_setter, fail) ==
    IF property_setter = None /\ fail = "create" THEN RegResult(G, S, FALSE)
    ELSE LET setter == IF property_setter # None THEN property_setter
                       ELSE ReadOnlySetter(class_name, property_name)
         IN IF fail = "getter" THEN RegResult(G, S, FALSE)
            ELSE LET G1 == insert_property_getter(G, class_name, property_name,
                                                  property_getter)
                 IN IF fail = "setter" THEN RegResult(G1, S, FALSE)
                    ELSE RegResult(G1,
                             insert_property_setter(S, class_name,
                                                    property_name, setter),
                             TRUE)

(***************************************************************************)
(* implement_byte_size_property.  `fail` is "create_getter",               *)
(* "create_setter", "getter", "setter" or "none".                          *)
(***************************************************************************)
implement_byte_size_property_getter_only(G, S, class_name, fail) ==
    IF fail \in {"create_getter", "create_setter", "getter"}
    THEN RegResult(G, S, FALSE)
    ELSE RegResult(insert_property_getter(G, class_name, "ByteSize",
                                          ByteSizeGetterFn), S, fail = "none")

implement_byte_size_property(G, S, class_name, fail) ==
    IF fail \in {"create_getter", "create_setter", "getter"}
    THEN RegResult(G, S, FALSE)
    ELSE LET G1 == insert_property_getter(G, class_name, "ByteSize",
                                          ByteSizeGetterFn)
         IN IF fail = "setter" THEN RegResult(G1, S, FALSE)
            ELSE RegResult(G1,
                     insert_property_setter(S, class_name, "ByteSize",
                                            ByteSizeSetter),
                     TRUE)

ByteSizeFails == {"none", "create_getter", "create_setter", "getter", "setter"}

(***************************************************************************)
(* Outcome of the last synchronous call on the host thread.                *)
(***************************************************************************)
NoCall ==
    [op |-> "none", class |-> "", prop |-> "", g |-> None, s |-> None,
     oldG |-> None, oldS |-> None, fail |-> "none", ok |-> TRUE, msg |-> <<>>, value |-> 0,
     inst |-> 0]

HostIdle == host.pc = "idle"

(***************************************************************************)
(* module() and implement_byte_size_for_all_classes.                       *)
(***************************************************************************)
\* The loop of lines 231-240 after one iteration: an error is reported and
\* the loop goes on to the next class.
LoopAfterAbort(ok, idx) ==
    IF ok THEN [pc |-> "loop", idx |-> idx + 1]
    ELSE [pc |-> "failed", idx |-> idx]
LoopAfter(ok, idx) == [pc |-> "loop", idx |-> idx + 1]

\* Lines 37-58 build the table (each step may fail with `?`); line 60 calls
\* the installer, whose line 229 constructs a reflection database.
ModuleStart(tableOk) ==
    /\ HostIdle
    /\ modPc \in {"none", "done", "failed"}
    /\ modRuns < MaxModuleRuns
    /\ modRuns' = modRuns + 1
    /\ failedClasses' = {}
    /\ IF tableOk
       THEN /\ modPc' = "loop"
            /\ modIdx' = 1
            /\ initRuns' = initRuns + 1
       ELSE /\ modPc' = "failed"
            /\ UNCHANGED <<modIdx, initRuns>>
    /\ last' = [NoCall EXCEPT !.op = "module", !.ok = tableOk]
    /\ UNCHANGED <<getters, setters, regCalls, once, thr>>
    /\ UNCHANGED bridgeVars

\* One iteration of the loop of lines 231-240.
InstallStep(fail) ==
    /\ modPc = "loop"
    /\ modIdx <= Len(get_class_names)
    /\ LET class_name == get_class_names[modIdx]
           r == implement_byte_size_property(getters, setters, class_name, fail)
           nxt == LoopAfter(r.ok, modIdx)
       IN /\ getters' = r.getters
          /\ setters' = r.setters
          /\ failedClasses' = IF r.ok THEN failedClasses
                              ELSE failedClasses \cup
                                   {[class |-> class_name, fail |-> fail]}
          /\ modPc' = nxt.pc
          /\ modIdx' = nxt.idx
          /\ last' = [NoCall EXCEPT !.op = "install", !.class = class_name,
                                    !.prop = "ByteSize", !.fail = fail,
                                    !.ok = r.ok]
    /\ UNCHANGED <<modRuns, regCalls>>
    /\ UNCHANGED bridgeVars
    /\ UNCHANGED onceVars

\* Line 242 and line 62: the installer returns Ok(()), module returns the table.
ModuleFinish ==
    /\ modPc = "loop"
    /\ modIdx > Len(get_class_names)
    /\ modPc' = "done"
    /\ last' = [NoCall EXCEPT !.op = "module", !.ok = TRUE]
    /\ UNCHANGED <<getters, setters, modIdx, modRuns, failedClasses, regCalls>>
    /\ UNCHANGED bridgeVars
    /\ UNCHANGED onceVars

(***************************************************************************)
(* Script calls on the host thread, possible once the module is loaded.    *)
(***************************************************************************)
ScriptClasses == {"Part", "Custom"}
ScriptProps == {"ByteSize", "Health"}
SetArgs == {0, 1}

ImplementProperty(c, p, g, s, fail) ==
    /\ HostIdle
    /\ modPc = "done"
    /\ regCalls < MaxRegCalls
    /\ fail = "create" => s = None
    /\ LET r == implement_property(getters, setters, c, p, g, s, fail)
       IN /\ getters' = r.getters
          /\ setters' = r.setters
          /\ last' = [NoCall EXCEPT !.op = "implementProperty", !.class = c,
                                    !.prop = p, !.g = g, !.s = s,
                                    !.oldG = Lookup(getters, c, p),
                                    !.oldS = Lookup(setters, c, p),
                                    !.fail = fail, !.ok = r.ok]
    /\ regCalls' = regCalls + 1
    /\ UNCHANGED <<modPc, modIdx, modRuns, failedClasses>>
    /\ UNCHANGED bridgeVars
    /\ UNCHANGED onceVars

\* instance[p] = arg on an instance of class c: the registered setter is called.
SetAttempt(c, p, arg) ==
    /\ HostIdle
    /\ modPc = "done"
    /\ Lookup(setters, c, p) # None
    /\ LET r == CallSetter(Lookup(setters, c, p), arg)
       IN last' = [NoCall EXCEPT !.op = "set", !.class = c, !.prop = p,
                                 !.ok = r.ok, !.msg = r.msg, !.value = arg]
    /\ UNCHANGED <<getters, setters, modPc, modIdx, modRuns, failedClasses,
                   regCalls>>
    /\ UNCHANGED bridgeVars
    /\ UNCHANGED onceVars

(***************************************************************************)
(* The derived ByteSize getter (lines 192-211).  It runs on the host       *)
(* thread, in two steps: the wrap, then the encode.                        *)
(***************************************************************************)
InitDom == [i \in 1..Len(InstancePool) |-> 0]

ReadResult(ok, v) == [ok |-> ok, value |-> v]

\* Lines 195-205: the document the getter wraps the instance as.
ByteSizeWrapModelOnly(i) == from_instance_array(<<i>>)
ByteSizeWrap(i) ==
    IF get_class_name(i) = "DataModel"
    THEN from_data_model_instance(i)
    ELSE from_instance_array(<<i>>)

\* Lines 198 and 203: a wrap error is answered with Ok(0).
ByteSizeOnWrapErr == ReadResult(TRUE, 0)

\* Lines 207-210: the length of the bytes, or Ok(0) on an encode error.
ByteSizeOnEncodeRaise(r) ==
    IF r.ok THEN ReadResult(TRUE, Len(r.val)) ELSE ReadResult(FALSE, 0)
ByteSizeOnEncode(r) ==
    IF r.ok THEN ReadResult(TRUE, Len(r.val)) ELSE ReadResult(TRUE, 0)

HostIdleState == [pc |-> "idle", inst |-> 0, doc |-> None]

\* instance.ByteSize on the host thread: class dispatch and the wrap.
ReadByteSizeBegin(i) ==
    /\ HostIdle
    /\ modPc = "done"
    /\ Lookup(getters, get_class_name(i), "ByteSize") = ByteSizeGetterFn
    /\ LET w == ByteSizeWrap(i)
       IN IF w.ok
          THEN /\ host' = [pc |-> "encoding", inst |-> i, doc |-> w.val]
               /\ last' = [NoCall EXCEPT !.op = "reading", !.inst = i]
          ELSE /\ host' = host
               /\ last' = [NoCall EXCEPT !.op = "read", !.inst = i,
                                         !.fail = "wrap",
                                         !.ok = ByteSizeOnWrapErr.ok,
                                         !.value = ByteSizeOnWrapErr.value]
    /\ UNCHANGED <<getters, setters, modPc, modIdx, modRuns, failedClasses,
                   regCalls, dom, task, work, ctxUp>>
    /\ UNCHANGED onceVars

\* The encode of line 207, still on the host thread, and the return.
ReadByteSizeEnd ==
    /\ host.pc = "encoding"
    /\ LET e == to_bytes_with_format(host.doc, "Binary", dom)
           r == ByteSizeOnEncode(e)
       IN last' = [NoCall EXCEPT !.op = "read", !.inst = host.inst,
                                 !.fail = IF e.ok THEN "none" ELSE "encode",
                                 !.ok = r.ok, !.value = r.value]
    /\ host' = HostIdleState
    /\ UNCHANGED <<getters, setters, modPc, modIdx, modRuns, failedClasses,
                   regCalls, dom, task, work, ctxUp>>
    /\ UNCHANGED onceVars

(***************************************************************************)
(* The four entry points.  Each copies its arguments, spawns a closure on  *)
(* the background context and awaits it.                                   *)
(***************************************************************************)
Tasks == 1..NumTasks

Ops == {"deserializePlace", "deserializeModel", "serializePlace",
        "serializeModel"}

AsXml == {"absent", "true", "false"}

\* Lines 92-95 and 109-112.
FormatOfAnySome(as_xml) == IF as_xml # "absent" THEN "Xml" ELSE "Binary"
FormatOf(as_xml) == IF as_xml = "true" THEN "Xml" ELSE "Binary"

RECURSIVE SeqsUpTo(_, _)
SeqsUpTo(S, n) ==
    IF n = 0 THEN {<<>>}
    ELSE LET shorter == SeqsUpTo(S, n - 1)
         IN shorter \cup {Append(q, x) : q \in shorter, x \in S}

InstanceArrays == SeqsUpTo(Instances, MaxLen)

Encoded(docres, f) == to_bytes_with_format(docres.val, f, InitDom).val

\* Contents passed to the deserialize entry points: encoded places and
\* models in both formats, an empty model, and malformed contents.
SampleBytes ==
    { Encoded(from_data_model_instance(1), "Binary"),
      Encoded(from_data_model_instance(1), "Xml"),
      Encoded(from_instance_array(<<2>>), "Binary"),
      Encoded(from_instance_array(<<2, 2>>), "Xml"),
      Encoded(from_instance_array(<<>>), "Binary"),
      <<>>,
      <<1, 2, 2>> }

NoWork ==
    [st |-> "none", ctx |-> "none", op |-> "none", bytes |-> <<>>,
     insts |-> <<>>, as_xml |-> "absent", doc |-> None, store |-> InitDom,
     result |-> Err("none"), steps |-> 0]

\* lua.spawn_blocking(move || ...) of lines 67, 77, 90 and 107: the closure,
\* with the arguments moved into it, is queued on the background context.
SpawnDeferred(op, bytes, insts, as_xml) ==
    [NoWork EXCEPT !.st = "deferred", !.ctx = "background", !.op = op,
                   !.bytes = bytes, !.insts = insts, !.as_xml = as_xml]
SpawnNoInstances(op, bytes, insts, as_xml) ==
    [NoWork EXCEPT !.st = "queued", !.ctx = "background", !.op = op,
                   !.bytes = bytes, !.insts = <<>>, !.as_xml = as_xml]
SpawnOnHost(op, bytes, insts, as_xml) ==
    [NoWork EXCEPT !.st = "queued", !.ctx = "host", !.op = op,
                   !.bytes = bytes, !.insts = insts, !.as_xml = as_xml]
Spawn(op, bytes, insts, as_xml) ==
    [NoWork EXCEPT !.st = "queued", !.ctx = "background", !.op = op,
                   !.bytes = bytes, !.insts = insts, !.as_xml = as_xml]

\* The closures the entry points spawn: the two codec calls each makes.
Closure(first, kind, second) ==
    [first |-> first, kind |-> kind, second |-> second]

\* Lines 77-81.
deserialize_model_closure ==
    Closure("from_bytes", "Model", "into_instance_array")
\* Lines 67-71.
deserialize_place_closure_as_model ==
    Closure("from_bytes", "Model", "into_instance_array")
deserialize_place_closure ==
    Closure("from_bytes", "Place", "into_data_model_instance")

\* Lines 90-97 and 107-114.
serialize_place_closure ==
    Closure("from_data_model_instance", "Place", "to_bytes_with_format")
serialize_model_closure ==
    Closure("from_instance_array", "Model", "to_bytes_with_format")

\* Lines 46-49: the closure behind each name of the module table.
ClosureOf(op) ==
    IF op = "deserializePlace" THEN deserialize_place_closure
    ELSE IF op = "deserializeModel" THEN deserialize_model_closure
    ELSE IF op = "serializePlace" THEN serialize_place_closure
    ELSE serialize_model_closure

\* First statement of a closure (lines 68, 78, 91, 108).
WorkStep1(w) ==
    LET c == ClosureOf(w.op)
    IN IF c.first = "from_bytes" THEN from_bytes(w.bytes, c.kind)
       ELSE IF c.first = "from_data_model_instance"
       THEN from_data_model_instance(w.insts[1])
       ELSE from_instance_array(w.insts)

\* Second statement of a closure (lines 69, 79, 92-95, 109-112).
WorkStep2(w, d) ==
    LET c == ClosureOf(w.op)
    IN IF c.second = "into_data_model_instance"
       THEN into_data_model_instance(w.doc)
       ELSE IF c.second = "into_instance_array" THEN into_instance_array(w.doc)
       ELSE to_bytes_with_format(w.doc, FormatOf(w.as_xml), d)

\* What an entry point hands back to the script: a value or a Lua error.
LuaOk(v) == [ok |-> TRUE, val |-> v, lua |-> "none", cause |-> "none"]
LuaErr(kind, cause) == [ok |-> FALSE, val |-> <<>>, lua |-> kind, cause |-> cause]

CallArg(op, bytes, insts, as_xml) ==
    [op |-> op, bytes |-> bytes, insts |-> insts, as_xml |-> as_xml]

\* The calls a script makes: contents for the deserializers, an instance or
\* an instance array and the optional asXml for the serializers.
CallArgs ==
    {CallArg(op, b, <<>>, "absent") :
        op \in {"deserializePlace", "deserializeModel"}, b \in SampleBytes}
    \cup {CallArg("serializePlace", <<>>, <<i>>, x) : i \in Instances, x \in AsXml}
    \cup {CallArg("serializeModel", <<>>, is, x) : is \in InstanceArrays, x \in AsXml}

\* A cooperative task: its position, the call it made (the arguments as the
\* script passed them and the document storage at the time of the call) and
\* what the call returned.
NoTask ==
    [pc |-> "idle", op |-> "none", ret |-> LuaErr("none", "none"),
     args |-> CallArg("none", <<>>, <<>>, "absent"), snap |-> InitDom]

\* An entry point is called: lines 66-67, 76-77, 89-90, 106-107, up to the
\* await, where the calling task suspends.
Call(t, op, bytes, insts, as_xml) ==
    /\ HostIdle
    /\ modPc = "done"
    /\ task[t].pc = "idle"
    /\ task' = [task EXCEPT ![t] =
                   [NoTask EXCEPT !.pc = "suspended", !.op = op,
                                  !.args = CallArg(op, bytes, insts, as_xml),
                                  !.snap = dom]]
    /\ work' = [work EXCEPT ![t] = Spawn(op, bytes, insts, as_xml)]
    /\ UNCHANGED <<dom, host, ctxUp>>
    /\ UNCHANGED regVars
    /\ UNCHANGED onceVars

\* The background context starts the closure and runs its first statement;
\* an error ends the closure there (`?`).  The document the statement builds
\* owns its tree: it holds the instances as the storage has them at that time.
BgStart(t) ==
    /\ ctxUp
    /\ work[t].st = "queued"
    /\ LET r == WorkStep1(work[t])
       IN work' = [work EXCEPT ![t] =
                      IF r.ok
                      THEN [@ EXCEPT !.st = "running", !.doc = r.val,
                                     !.store = dom, !.steps = 1]
                      ELSE [@ EXCEPT !.st = "done", !.result = r, !.steps = 1]]
    /\ UNCHANGED <<dom, host, task, ctxUp>>
    /\ UNCHANGED regVars
    /\ UNCHANGED onceVars

\* The closure runs its second statement and returns.
BgFinish(t) ==
    /\ work[t].st = "running"
    /\ work' = [work EXCEPT ![t] =
                   [@ EXCEPT !.st = "done",
                             !.result = WorkStep2(work[t], work[t].store),
                             !.steps = 2]]
    /\ UNCHANGED <<dom, host, task, ctxUp>>
    /\ UNCHANGED regVars
    /\ UNCHANGED onceVars

\* fut.await: the future is ready once the closure has returned.
FutureReadyEarly(w) == w.st \in {"running", "done"}
FutureReady(w) == w.st = "done"

\* Lines 72, 82, 98-99, 115-116: into_lua_err()? on the closure's result,
\* then into_lua / create_string, which may itself fail in the Lua state.
AfterAwaitSwallow(r, luaOk) ==
    IF ~r.ok \/ ~luaOk THEN LuaOk(<<>>) ELSE LuaOk(r.val)
AfterAwait(r, luaOk) ==
    IF ~r.ok THEN LuaErr("ExternalError", r.err)
    ELSE IF ~luaOk THEN LuaErr("MemoryError", "none")
    ELSE LuaOk(r.val)

\* The host scheduler resumes the awaiting task.
Resume(t, luaOk) ==
    /\ HostIdle
    /\ task[t].pc = "suspended"
    /\ FutureReady(work[t])
    /\ task' = [task EXCEPT ![t] =
                   [@ EXCEPT !.pc = "returned",
                             !.ret = AfterAwait(work[t].result, luaOk)]]
    /\ UNCHANGED <<dom, host, work, ctxUp>>
    /\ UNCHANGED regVars
    /\ UNCHANGED onceVars

\* The background execution context shuts down: queued closures never run.
ContextShutdown ==
    /\ ctxUp
    /\ ctxUp' = FALSE
    /\ UNCHANGED <<dom, host, task, work>>
    /\ UNCHANGED regVars
    /\ UNCHANGED onceVars

\* The future of a closure that will never run yields no Result: the type the
\* entry points await (lines 72, 98) has no error but the closure's own.  The
\* awaiting task either stays suspended for ever or is torn down by a panic.
AwaitPanics(t) ==
    /\ HostIdle
    /\ ~ctxUp
    /\ task[t].pc = "suspended"
    /\ work[t].st = "queued"
    /\ task' = [task EXCEPT ![t] = [@ EXCEPT !.pc = "panicked"]]
    /\ work' = [work EXCEPT ![t] = [@ EXCEPT !.st = "lost"]]
    /\ UNCHANGED <<dom, host, ctxUp>>
    /\ UNCHANGED regVars
    /\ UNCHANGED onceVars

\* The awaiting task is abandoned (its coroutine is cancelled or dropped) on
\* the host thread.  The closure is a detached unit of the background
\* context: it is left as it is, and nobody awaits its result any more.
Abandon(t) ==
    /\ HostIdle
    /\ task[t].pc = "suspended"
    /\ task' = [task EXCEPT ![t] = [@ EXCEPT !.pc = "abandoned"]]
    /\ UNCHANGED <<dom, host, work, ctxUp>>
    /\ UNCHANGED regVars
    /\ UNCHANGED onceVars

\* Another cooperative task of the host thread changes instance i in the
\* shared document storage.  The handles the entry points copied (lines 87
\* and 104) refer to that storage.
Mutate(i) ==
    /\ HostIdle
    /\ modPc = "done"
    /\ dom[i] < MaxData
    /\ dom' = [dom EXCEPT ![i] = @ + 1]
    /\ UNCHANGED <<host, task, work, ctxUp>>
    /\ UNCHANGED regVars
    /\ UNCHANGED onceVars

(***************************************************************************)
(* REFLECTION_DATABASE (line 14) and get_reflection_database (127-129).    *)
(* Thread 1 is the host thread of the Lua state modelled above; every      *)
(* other thread runs a Lua state of its own in the same process.           *)
(***************************************************************************)
Threads == 1..NumThreads

NoThread == [pc |-> "ready", loaded |-> FALSE, calls |-> 0, got |-> 0]

Loaded(t) == IF t = 1 THEN modPc = "done" ELSE thr[t].loaded

\* module() of another thread's Lua state: its installer constructs a
\* reflection database too (line 229).
OtherModule(t) ==
    /\ t # 1
    /\ ~thr[t].loaded
    /\ thr' = [thr EXCEPT ![t] = [@ EXCEPT !.loaded = TRUE]]
    /\ initRuns' = initRuns + 1
    /\ UNCHANGED once
    /\ UNCHANGED regVars
    /\ UNCHANGED bridgeVars

\* REFLECTION_DATABASE.get_or_init(ReflectionDatabase::new), entered: the
\* cell is read; the one caller that finds it empty runs the initializer,
\* a caller that finds it being initialized blocks.
DbCallBegin(t) ==
    /\ Loaded(t)
    /\ t = 1 => HostIdle
    /\ thr[t].pc = "ready"
    /\ thr[t].calls < MaxDbCalls
    /\ IF once.st = "done"
       THEN /\ thr' = [thr EXCEPT ![t] = [@ EXCEPT !.calls = @ + 1,
                                                   !.got = once.val]]
            /\ UNCHANGED <<once, initRuns>>
       ELSE IF once.st = "uninit"
       THEN /\ once' = [st |-> "running", val |-> 0]
            /\ initRuns' = initRuns + 1
            /\ thr' = [thr EXCEPT ![t] = [@ EXCEPT !.pc = "initializing"]]
       ELSE /\ thr' = [thr EXCEPT ![t] = [@ EXCEPT !.pc = "blocked"]]
            /\ UNCHANGED <<once, initRuns>>
    /\ UNCHANGED regVars
    /\ UNCHANGED bridgeVars

\* The initializer returns: the cell is set and the caller gets its value.
DbInitDone(t) ==
    /\ thr[t].pc = "initializing"
    /\ once' = [st |-> "done", val |-> initRuns]
    /\ thr' = [thr EXCEPT ![t] = [@ EXCEPT !.pc = "ready", !.calls = @ + 1,
                                           !.got = initRuns]]
    /\ UNCHANGED initRuns
    /\ UNCHANGED regVars
    /\ UNCHANGED bridgeVars

\* A blocked caller wakes once the cell is set.
DbUnblock(t) ==
    /\ thr[t].pc = "blocked"
    /\ once.st = "done"
    /\ thr' = [thr EXCEPT ![t] = [@ EXCEPT !.pc = "ready", !.calls = @ + 1,
                                           !.got = once.val]]
    /\ UNCHANGED <<once, initRuns>>
    /\ UNCHANGED regVars
    /\ UNCHANGED bridgeVars

(***************************************************************************)
(* Specifications.                                                         *)
(***************************************************************************)
\* A fresh process: nothing registered, nothing spawned, the cell empty.
Init ==
    /\ getters = {}
    /\ setters = {}
    /\ modPc = "none"
    /\ modIdx = 1
    /\ modRuns = 0
    /\ failedClasses = {}
    /\ regCalls = 0
    /\ last = NoCall
    /\ dom = InitDom
    /\ host = HostIdleState
    /\ task = [t \in Tasks |-> NoTask]
    /\ work = [t \in Tasks |-> NoWork]
    /\ ctxUp = TRUE
    /\ once = [st |-> "uninit", val |-> 0]
    /\ initRuns = 0
    /\ thr = [t \in Threads |-> NoThread]

ImplFails == {"none", "create", "getter", "setter"}

\* Registry: module initialisation, then implementProperty and set attempts.
Next ==
    \/ \E tableOk \in BOOLEAN : ModuleStart(tableOk)
    \/ \E fail \in ByteSizeFails : InstallStep(fail)
    \/ ModuleFinish
    \/ \E c \in ScriptClasses, p \in ScriptProps, g \in ScriptGetters,
          s \in ScriptSetters \cup {None}, fail \in ImplFails :
          ImplementProperty(c, p, g, s, fail)
    \/ \E c \in ScriptClasses \cup ClassNames, p \in ScriptProps, a \in SetArgs :
          SetAttempt(c, p, a)

Spec == Init /\ [][Next]_vars

RECURSIVE InstallAll(_, _, _)
InstallAll(G, S, i) ==
    IF i > Len(get_class_names) THEN RegResult(G, S, TRUE)
    ELSE LET r == implement_byte_size_property(G, S, get_class_names[i], "none")
         IN InstallAll(r.getters, r.setters, i + 1)

\* The process after module() has returned with every installation done.
InitLoaded ==
    /\ getters = InstallAll({}, {}, 1).getters
    /\ setters = InstallAll({}, {}, 1).setters
    /\ modPc = "done"
    /\ modIdx = Len(get_class_names) + 1
    /\ modRuns = 1
    /\ failedClasses = {}
    /\ regCalls = 0
    /\ last = [NoCall EXCEPT !.op = "module"]
    /\ dom = InitDom
    /\ host = HostIdleState
    /\ task = [t \in Tasks |-> NoTask]
    /\ work = [t \in Tasks |-> NoWork]
    /\ ctxUp = TRUE
    /\ once = [st |-> "uninit", val |-> 0]
    /\ initRuns = 1
    /\ thr = [t \in Threads |-> NoThread]

\* Bridge: the entry points, the background context and ByteSize reads.
NextBridge ==
    \/ \E t \in Tasks, a \in CallArgs :
          Call(t, a.op, a.bytes, a.insts, a.as_xml)
    \/ \E t \in Tasks : BgStart(t)
    \/ \E t \in Tasks : BgFinish(t)
    \/ \E t \in Tasks, luaOk \in BOOLEAN : Resume(t, luaOk)
    \/ ContextShutdown
    \/ \E t \in Tasks : AwaitPanics(t)
    \/ \E i \in Instances : ReadByteSizeBegin(i)
    \/ ReadByteSizeEnd

SpecBridge == InitLoaded /\ [][NextBridge]_vars

\* OnceLock: module initialisations and getReflectionDatabase on threads.
NextOnce ==
    \/ \E tableOk \in BOOLEAN : ModuleStart(tableOk)
    \/ \E fail \in ByteSizeFails : InstallStep(fail)
    \/ ModuleFinish
    \/ \E t \in Threads : OtherModule(t)
    \/ \E t \in Threads : DbCallBegin(t)
    \/ \E t \in Threads : DbInitDone(t)
    \/ \E t \in Threads : DbUnblock(t)

SpecOnce == Init /\ [][NextOnce]_vars

\* Calls of the four entry points that succeed, fail in the first statement
\* of the closure, or fail in the second.
LiveArgs ==
    { CallArg("deserializePlace", Encoded(from_data_model_instance(1), "Binary"),
              <<>>, "absent"),
      CallArg("deserializeModel", Encoded(from_data_model_instance(1), "Binary"),
              <<>>, "absent"),
      CallArg("serializePlace", <<>>, <<1>>, "absent"),
      CallArg("serializePlace", <<>>, <<2>>, "absent"),
      CallArg("serializeModel", <<>>, <<2>>, "true"),
      CallArg("serializeModel", <<>>, <<3>>, "false") }

\* Bridge with abandoned callers, on a background context that is running.
NextLive ==
    \/ \E t \in Tasks, a \in LiveArgs :
          Call(t, a.op, a.bytes, a.insts, a.as_xml)
    \/ \E t \in Tasks : BgStart(t)
    \/ \E t \in Tasks : BgFinish(t)
    \/ \E t \in Tasks, luaOk \in BOOLEAN : Resume(t, luaOk)
    \/ \E t \in Tasks : Abandon(t)

\* The background context is a pool of threads of its own: while it is up it
\* starts every queued closure, and a closure that runs returns.
SpecLive ==
    /\ InitLoaded
    /\ [][NextLive]_vars
    /\ \A t \in Tasks : WF_vars(BgStart(t)) /\ WF_vars(BgFinish(t))

\* The serializer calls of a script whose other tasks change the instances.
MutateArgs ==
    { CallArg("serializePlace", <<>>, <<1>>, "absent"),
      CallArg("serializePlace", <<>>, <<2>>, "absent"),
      CallArg("serializeModel", <<>>, <<2>>, "absent"),
      CallArg("serializeModel", <<>>, <<2>>, "true"),
      CallArg("serializeModel", <<>>, <<3>>, "false") }

\* Serializer calls interleaved with mutations of the document storage.
NextMutate ==
    \/ \E t \in Tasks, a \in MutateArgs :
          Call(t, a.op, a.bytes, a.insts, a.as_xml)
    \/ \E t \in Tasks : BgStart(t)
    \/ \E t \in Tasks : BgFinish(t)
    \/ \E t \in Tasks, luaOk \in BOOLEAN : Resume(t, luaOk)
    \/ \E i \in Instances : Mutate(i)

SpecMutate == InitLoaded /\ [][NextMutate]_vars

(***************************************************************************)
(* Properties.                                                             *)
(***************************************************************************)
Keys == (ScriptClasses \cup ClassNames) \X ScriptProps

\* C1: after implementProperty(c, p, getter) without a setter, a set attempt
\* on p of class c fails, whatever its arguments, with the read-only error
\* whose message names exactly p.
C1_ReadOnlyErrorNamesProperty ==
    /\ (last.op = "implementProperty" /\ last.ok /\ last.s = None) =>
          \A a \in SetArgs :
             CallSetter(Lookup(setters, last.class, last.prop), a)
                = [ok |-> FALSE,
                   msg |-> <<"Property '", last.prop, "' is read-only">>]
    /\ (last.op = "set"
        /\ Lookup(setters, last.class, last.prop).kind = "readonly") =>
          /\ ~last.ok
          /\ last.msg = <<"Property '", last.prop, "' is read-only">>

\* A set attempt was made on a property that only implementProperty registers.
C1_Witness ==
    /\ last.op = "set"
    /\ last.class = "Custom"
    /\ last.prop = "Health"
    /\ Lookup(setters, "Custom", "Health").kind = "readonly"
    /\ ~last.ok

\* C2: a successful implementProperty call leaves, for its key, exactly one
\* getter and one setter, those of that call (the synthesized read-only
\* setter when none was passed), and leaves every other key as it was; no
\* key ever has two getters or two setters.
C2_NoDuplicates ==
    \A k \in Keys :
       /\ Cardinality(EntriesFor(getters, k[1], k[2])) <= 1
       /\ Cardinality(EntriesFor(setters, k[1], k[2])) <= 1

C2_SuccessfulCall ==
    (regCalls' = regCalls + 1 /\ last'.ok) =>
       /\ EntriesFor(getters', last'.class, last'.prop)
             = {Entry(last'.class, last'.prop, last'.g)}
       /\ EntriesFor(setters', last'.class, last'.prop)
             = {Entry(last'.class, last'.prop,
                      IF last'.s # None THEN last'.s
                      ELSE [kind |-> "readonly", name |-> last'.prop])}
       /\ \A k \in Keys :
             k # <<last'.class, last'.prop>> =>
                /\ EntriesFor(getters', k[1], k[2]) = EntriesFor(getters, k[1], k[2])
                /\ EntriesFor(setters', k[1], k[2]) = EntriesFor(setters, k[1], k[2])

\* C2: in every state no key has two getters or two setters, and every
\* successful implementProperty step installs exactly its own pair for its
\* key and changes no other key.
C2_LastWriteWins == []C2_NoDuplicates /\ [][C2_SuccessfulCall]_vars

\* A call without a setter has replaced an explicit setter of an earlier call.
C2_Witness ==
    /\ last.op = "implementProperty"
    /\ last.ok
    /\ last.s = None
    /\ last.oldS.kind = "script"
    /\ Lookup(setters, last.class, last.prop).kind = "readonly"

\* C3: a ByteSize read never raises and returns a non-negative integer, which
\* is 0 whenever the wrap or the encode failed.
C3_ByteSizeNeverRaises ==
    last.op = "read" =>
       /\ last.ok
       /\ last.value >= 0
       /\ last.fail \in {"wrap", "encode"} => last.value = 0
       /\ ~ByteSizeWrap(last.inst).ok => last.fail = "wrap"
       /\ (ByteSizeWrap(last.inst).ok
           /\ ~to_bytes_with_format(ByteSizeWrap(last.inst).val, "Binary", dom).ok)
             => last.fail = "encode"

\* ByteSize was read on an instance whose encoding fails.
C3_Witness ==
    /\ last.op = "read"
    /\ last.fail = "encode"
    /\ InstancePool[last.inst].broken
    /\ last.value = 0

ByteSizeInstalled(c) ==
    /\ Lookup(getters, c, "ByteSize") = ByteSizeGetterFn
    /\ Lookup(setters, c, "ByteSize") = ByteSizeSetter

ModuleJustLoaded == modPc = "done" /\ last.op = "module"

\* C4: a failed installation does not end the loop: the next class is visited,
\* and when exactly one class failed, module() still returns success with
\* ByteSize installed, getter and setter, for each of the other classes.
C4_InstallerResilient ==
    /\ last.op = "install" =>
          /\ modPc = "loop"
          /\ modIdx = ClassIndex(last.class) + 1
    /\ (ModuleJustLoaded /\ Cardinality(failedClasses) = 1) =>
          /\ last.ok
          /\ modIdx = Len(get_class_names) + 1
          /\ \A c \in ClassNames :
                c \notin {f.class : f \in failedClasses} => ByteSizeInstalled(c)

\* module() has returned with the installation of exactly one class failed.
C4_Witness ==
    /\ ModuleJustLoaded
    /\ Cardinality(failedClasses) = 1
    /\ \E c \in ClassNames : ~ByteSizeInstalled(c)

\* C5 as stated: after a module initialisation in which no registry
\* insertion failed, every class has a ByteSize getter and setter.
C5_NoInsertFailure ==
    (ModuleJustLoaded
     /\ \A f \in failedClasses : f.fail \notin {"getter", "setter"})
       => \A c \in ClassNames : ByteSizeInstalled(c)

\* C5 (amended): after a module initialisation in which no step of any
\* class's installation failed, neither the creation of a closure nor a
\* registry insertion, every class has a ByteSize getter and setter.
C5_NoFailure ==
    (ModuleJustLoaded /\ failedClasses = {})
       => \A c \in ClassNames : ByteSizeInstalled(c)

\* module() has returned and nothing was reported.
C5_Witness ==
    /\ ModuleJustLoaded
    /\ failedClasses = {}
    /\ modIdx = Len(get_class_names) + 1

\* C6: the caller of an entry point stays suspended until its closure has
\* returned, and what it then receives is the closure's result: the whole
\* value, or an error that carries the closure's error.
C6_ResumeOnlyAfterCompletion ==
    \A t \in Tasks :
       /\ work[t].st \in {"queued", "running"} => task[t].pc = "suspended"
       /\ task[t].pc = "returned" =>
             /\ work[t].st = "done"
             /\ task[t].ret.ok =>
                   work[t].result.ok /\ task[t].ret.val = work[t].result.val
             /\ (~task[t].ret.ok /\ task[t].ret.lua = "ExternalError") =>
                   ~work[t].result.ok /\ task[t].ret.cause = work[t].result.err
             /\ (~task[t].ret.ok /\ task[t].ret.lua # "ExternalError") =>
                   work[t].result.ok

\* A caller has resumed with the bytes its closure encoded in two steps.
C6_Witness ==
    \E t \in Tasks :
       /\ task[t].pc = "returned"
       /\ task[t].op = "serializeModel"
       /\ work[t].steps = 2
       /\ task[t].ret.ok
       /\ Len(task[t].ret.val) > 2

\* The codec steps in progress: the encode of a ByteSize read on the host
\* thread, and the closures the background context is running.
RunningCodec ==
    {[ctx |-> "host", owner |-> "ByteSize"] : x \in {h \in {host} : h.pc = "encoding"}}
    \cup {[ctx |-> work[t].ctx, owner |-> work[t].op] :
             t \in {u \in Tasks : work[u].st = "running"}}

\* C7 as stated: every codec step in progress belongs to the background
\* context; the host thread never runs one, not even for a property read.
C7_NoCodecOnHost == \A r \in RunningCodec : r.ctx = "background"

\* C7 (amended): every codec step of the four serialize / deserialize entry
\* points runs on the background context; the only codec work on the host
\* thread is that of the derived ByteSize getter, which wraps and encodes
\* synchronously during the property read.
C7_OnlyByteSizeOnHost ==
    /\ \A r \in RunningCodec : r.ctx # "background" => r.owner = "ByteSize"
    /\ \A t \in Tasks :
          work[t].st \in {"queued", "running"} => work[t].ctx = "background"

\* The host encodes for a ByteSize read while a spawned closure is running.
C7_Witness ==
    /\ host.pc = "encoding"
    /\ \E t \in Tasks : work[t].st = "running" /\ work[t].ctx = "background"

\* C8: when the background context never runs the spawned closure, the
\* awaiting caller gets an infrastructure-level error, of a kind other than
\* the codec's DocumentError.
C8_InfrastructureErrorDelivered ==
    \A t \in Tasks :
       work[t].st = "lost" =>
          /\ task[t].pc = "returned"
          /\ ~task[t].ret.ok
          /\ task[t].ret.lua = "InfrastructureError"
          /\ task[t].ret.cause # "DocumentError"

\* Bytes that encoding a Model document produces, in either format.
ModelBytes ==
    {Encoded(from_instance_array(is), f) :
        is \in {q \in SeqsUpTo(1..Len(InstancePool), 2) :
                   /\ from_instance_array(q).ok
                   /\ to_bytes_with_format(from_instance_array(q).val,
                                           "Binary", InitDom).ok},
        f \in {"Binary", "Xml"}}

\* C9: deserializePlace on the bytes of an encoded Model document ends in a
\* DocumentError and yields no instance; it yields an instance only when
\* from_bytes with kind Place and into_data_model_instance both succeed.
C9_ModelBytesAsPlaceFail ==
    \A t \in Tasks :
       (task[t].op = "deserializePlace" /\ work[t].st = "done") =>
          /\ work[t].bytes \in ModelBytes =>
                ~work[t].result.ok /\ work[t].result.err = "DocumentError"
          /\ (task[t].pc = "returned" /\ work[t].bytes \in ModelBytes) =>
                /\ ~task[t].ret.ok
                /\ task[t].ret.cause = "DocumentError"
          /\ (task[t].pc = "returned" /\ task[t].ret.ok) =>
                /\ from_bytes(work[t].bytes, "Place").ok
                /\ into_data_model_instance(
                       from_bytes(work[t].bytes, "Place").val).ok

\* deserializePlace has returned its error for the bytes of a Model document.
C9_Witness ==
    \E t \in Tasks :
       /\ task[t].op = "deserializePlace"
       /\ task[t].pc = "returned"
       /\ work[t].bytes \in ModelBytes
       /\ Len(work[t].bytes) > 2
       /\ ~task[t].ret.ok

\* C10: the reflection database initializer runs at most once in the
\* process, not before the database is first requested, and every
\* getReflectionDatabase call returns the same value.
C10_InitializerRunsOnce ==
    /\ initRuns <= 1
    /\ initRuns > 0 => once.st # "uninit"
    /\ \A t, u \in Threads :
          (thr[t].calls > 0 /\ thr[u].calls > 0) => thr[t].got = thr[u].got

\* What encoding the instance array of a serializeModel call alone produces.
OwnModelBytes(a, d) ==
    to_bytes_with_format(from_instance_array(a.insts).val,
                         IF a.as_xml = "true" THEN "Xml" ELSE "Binary", d)

SameInstance(a, b) ==
    \E j \in 1..Len(a.insts), k \in 1..Len(b.insts) : a.insts[j] = b.insts[k]

\* C11: serializeModel calls in flight together do not interfere: a caller
\* that gets bytes gets exactly the encoding of its own instance array, and
\* the closure spawned for a caller holds that caller's instances.
C11_IndependentSerializeModel ==
    \A t \in Tasks :
       task[t].op = "serializeModel" =>
          /\ work[t].st # "none" => work[t].insts = task[t].args.insts
          /\ (task[t].pc = "returned" /\ task[t].ret.ok) =>
                /\ from_instance_array(task[t].args.insts).ok
                /\ task[t].ret.val = OwnModelBytes(task[t].args, dom).val

\* Two serializeModel calls on disjoint, non-empty instance arrays have
\* both returned, each with its own bytes.
C11_Witness ==
    \E t, u \in Tasks :
       /\ t # u
       /\ task[t].op = "serializeModel" /\ task[u].op = "serializeModel"
       /\ task[t].pc = "returned" /\ task[u].pc = "returned"
       /\ task[t].ret.ok /\ task[u].ret.ok
       /\ task[t].args.insts # <<>> /\ task[u].args.insts # <<>>
       /\ ~SameInstance(task[t].args, task[u].args)
       /\ task[t].ret.val # task[u].ret.val

\* The result of an abandoned caller's closure reaches no task: the caller
\* holds no value and no error, and what another task holds is the result of
\* that task's own closure.
C12_ResultDiscarded ==
    \A t \in Tasks :
       /\ task[t].pc = "abandoned" => task[t].ret = NoTask.ret
       /\ task[t].pc = "returned" =>
             /\ work[t].st = "done"
             /\ \E luaOk \in BOOLEAN :
                   task[t].ret = AfterAwait(work[t].result, luaOk)

\* C12: once an entry point has spawned its closure, the closure eventually
\* runs to completion, also when the caller is abandoned before it resumes;
\* the result of an abandoned caller's closure is delivered to no task.
C12_SpawnedWorkCompletes ==
    /\ []C12_ResultDiscarded
    /\ \A t \in Tasks : (task[t].pc # "idle") ~> (work[t].st = "done")

\* The closure of an abandoned caller has run both statements and returned.
C12_Witness ==
    \E t \in Tasks :
       /\ task[t].pc = "abandoned"
       /\ work[t].st = "done"
       /\ work[t].steps = 2
       /\ work[t].result.ok

\* C13: a DocumentError returned by a closure, from either statement, makes
\* the entry point fail with an error that carries it, and no value; a
\* closure whose first statement failed has not run its second.
C13_CodecErrorSurfaced ==
    \A t \in Tasks :
       /\ (work[t].st = "done" /\ ~WorkStep1(work[t]).ok) =>
             /\ work[t].steps = 1
             /\ work[t].result = WorkStep1(work[t])
       /\ (work[t].st = "done" /\ work[t].steps = 2) =>
             work[t].result = WorkStep2(work[t], work[t].store)
       /\ (task[t].pc = "returned" /\ ~work[t].result.ok) =>
             /\ work[t].result.err = "DocumentError"
             /\ ~task[t].ret.ok
             /\ task[t].ret.val = <<>>
             /\ task[t].ret.lua = "ExternalError"
             /\ task[t].ret.cause = "DocumentError"

\* An entry point has failed with the error of its closure's first statement.
C13_Witness ==
    \E t \in Tasks :
       /\ task[t].pc = "returned"
       /\ task[t].op = "deserializeModel"
       /\ work[t].steps = 1
       /\ ~task[t].ret.ok
       /\ task[t].ret.cause = "DocumentError"

Serializers == {"serializePlace", "serializeModel"}

\* C15: serializePlace and serializeModel encode with Xml exactly when the
\* asXml argument is true, and with Binary when it is absent or false; the
\* bytes are those of one encoding, in that format.
C15_XmlIffAsXmlTrue ==
    \A t \in Tasks :
       (task[t].op \in Serializers /\ work[t].st = "done" /\ work[t].steps = 2) =>
          /\ work[t].result.ok =>
                /\ task[t].args.as_xml = "true"
                      <=> work[t].result.val[1] = FormatMagic("Xml")
                /\ task[t].args.as_xml \in {"absent", "false"}
                      <=> work[t].result.val[1] = FormatMagic("Binary")
          /\ work[t].result =
                to_bytes_with_format(work[t].doc,
                    IF task[t].args.as_xml = "true" THEN "Xml" ELSE "Binary",
                    dom)

\* One call with asXml = true has produced Xml, one with asXml = false Binary.
C15_Witness ==
    \E t, u \in Tasks :
       /\ task[t].op \in Serializers /\ task[u].op \in Serializers
       /\ task[t].args.as_xml = "true" /\ task[u].args.as_xml = "false"
       /\ task[t].pc = "returned" /\ task[u].pc = "returned"
       /\ task[t].ret.ok /\ task[u].ret.ok
       /\ task[t].ret.val[1] = FormatMagic("Xml")
       /\ task[u].ret.val[1] = FormatMagic("Binary")

\* The entry point whose document the ByteSize getter's document matches.
SerializerFor(i) ==
    IF InstancePool[i].cls = "DataModel" THEN "serializePlace"
    ELSE "serializeModel"

\* C16: the ByteSize getter wraps a DataModel as a Place document and any
\* other instance as a Model document of that one instance, encodes with
\* Binary and returns the length of the bytes: the length of what
\* serializePlace(instance), or serializeModel({instance}), returns without
\* asXml.
C16_ByteSizeMatchesSerialize ==
    /\ host.pc = "encoding" =>
          /\ host.doc.roots = <<host.inst>>
          /\ host.doc.kind =
                IF InstancePool[host.inst].cls = "DataModel" THEN "Place"
                ELSE "Model"
    /\ (last.op = "read" /\ last.fail = "none") =>
          /\ last.value =
                Len(<<FormatMagic("Binary")>>) + 1 + Len(EncodeRoot(last.inst, "Binary", dom))
          /\ \A t \in Tasks :
                (/\ task[t].pc = "returned"
                 /\ task[t].op = SerializerFor(last.inst)
                 /\ task[t].args.insts = <<last.inst>>
                 /\ task[t].args.as_xml = "absent"
                 /\ task[t].ret.ok)
                   => last.value = Len(task[t].ret.val)

\* ByteSize was read on a DataModel that serializePlace has also encoded.
C16_Witness ==
    /\ last.op = "read"
    /\ last.fail = "none"
    /\ InstancePool[last.inst].cls = "DataModel"
    /\ \E t \in Tasks :
          /\ task[t].pc = "returned"
          /\ task[t].op = "serializePlace"
          /\ task[t].args.insts = <<last.inst>>
          /\ task[t].args.as_xml = "absent"
          /\ task[t].ret.ok
          /\ Len(task[t].ret.val) = last.value

\* The installer registered ByteSize on class c and no script has called
\* implementProperty since.
InstallerRegistered(c) ==
    /\ modPc = "done"
    /\ regCalls = 0
    /\ c \in ClassNames
    /\ c \notin {f.class : f \in failedClasses}

C14_SetterFails ==
    /\ \A c \in ClassNames :
          InstallerRegistered(c) =>
             \A a \in SetArgs :
                CallSetter(Lookup(setters, c, "ByteSize"), a)
                   = [ok |-> FALSE,
                      msg |-> <<"Property '", "ByteSize", "' is read-only">>]
    /\ (last.op = "set" /\ last.prop = "ByteSize"
        /\ InstallerRegistered(last.class)) =>
          /\ ~last.ok
          /\ last.msg = <<"Property '", "ByteSize", "' is read-only">>

C14_SetChangesNothing ==
    (last' # last /\ last'.op = "set") =>
       /\ getters' = getters
       /\ setters' = setters
       /\ dom' = dom

\* C14: on every class on which the installer registered ByteSize, a set
\* attempt on ByteSize fails for any argument with the read-only error naming
\* 'ByteSize', and changes neither the registry nor the instance.
C14_ByteSizeReadOnly == []C14_SetterFails /\ [][C14_SetChangesNothing]_vars

\* A set attempt on the installer's ByteSize has failed.
C14_Witness ==
    /\ last.op = "set"
    /\ last.prop = "ByteSize"
    /\ InstallerRegistered(last.class)
    /\ last.value = 1
    /\ ~last.ok

\* C17: a call of implementProperty(c, p, ...) that returns an error leaves
\* the getter and the setter registered for (c, p) as they were before it.
C17_AllOrNothing ==
    (last.op = "implementProperty" /\ ~last.ok) =>
       /\ Lookup(getters, last.class, last.prop) = last.oldG
       /\ Lookup(setters, last.class, last.prop) = last.oldS

\* C18: every key that has a getter in the registry also has a setter.
C18_GetterHasSetter ==
    \A k \in Keys :
       Lookup(getters, k[1], k[2]) # None => Lookup(setters, k[1], k[2]) # None

\* The bytes of a serializer call with arguments a on document storage d.
CallBytes(a, d) ==
    LET doc == IF a.op = "serializePlace"
               THEN from_data_model_instance(a.insts[1])
               ELSE from_instance_array(a.insts)
    IN to_bytes_with_format(doc.val,
                            IF a.as_xml = "true" THEN "Xml" ELSE "Binary", d)

\* C19: the bytes serializePlace or serializeModel returns encode the
\* instances as they were when the call was made, whatever other tasks did to
\* them before the background work completed.
C19_BytesOfCallTime ==
    \A t \in Tasks :
       (task[t].op \in Serializers /\ task[t].pc = "returned" /\ task[t].ret.ok)
          => task[t].ret.val = CallBytes(task[t].args, task[t].snap).val

====
